---- MODULE Spec2Model ----
(***************************************************************************)
(* Model of the SCPI command socket (scpi.py) and of the FG/PG control     *)
(* sequencer (optsw-ctrl.py).                                              *)
(*                                                                         *)
(* A text is a sequence of characters, each character a one-element        *)
(* string; the fixed command words of the sequencer ("OUTP1 ON", ...) are  *)
(* kept as single tokens, which no text operation looks into.              *)
(***************************************************************************)
EXTENDS Integers, Sequences, FiniteSets, TLC

VARIABLES
    sockState,  \* per instrument: "unconnected" | "connected" | "released"
    released,   \* per instrument: how many times socket.close() released it
    trace,      \* every send, recv, completed sleep and notice, in order
    exc,        \* the exception now propagating, "none" if none
    raised,     \* every exception raised so far: what, in which phase, after how many
                \* events, at which statement of the phase
    \* ---- send_commands (scpi.py) ----
    scpc,       \* position inside send_commands
    commands,   \* its argument: the lines of the command file
    autorecv,   \* its argument
    host,       \* its argument: the instrument connected to
    ci,         \* index of the line the loop is at
    \* ---- main (optsw-ctrl.py) ----
    pc,         \* position inside main
    preset,     \* the contents of the preset files
    k,          \* index into the list of files or start steps of the current phase
    ri,         \* index of the line a file replay is at
    rstage,     \* "line" | "recv": position inside the replay of one line
    polls,      \* completed iterations of the polling loop
    gate,       \* how the confirmation prompt ended: "pending" | "go" | exception
    \* ---- one CustomSocket at the level of the byte stream (scpi.py) ----
    lastop,     \* the last call: "none" | "send" | "recv"
    outcome,    \* how it ended: "none" | "returned" | the exception raised
    sarg,       \* the string given to the last send
    written,    \* the bytes the last send put on the stream
    nbytes,     \* what the last send returned
    logmsg,     \* the record the last call gave to the logger, if it gave one
    inflight,   \* bytes of replies the instrument sent that have not arrived yet
    inbuf,      \* bytes that arrived and were not read yet
    rret        \* what the last recv returned

vars == <<sockState, released, trace, exc, raised, scpc, commands, autorecv,
          host, ci, pc, preset, k, ri, rstage, polls, gate,
          lastop, outcome, sarg, written, nbytes, logmsg, inflight, inbuf, rret>>

scvars == <<scpc, commands, autorecv, host, ci>>
mainvars == <<pc, preset, k, ri, rstage, polls, gate>>
stvars == <<lastop, outcome, sarg, written, nbytes, logmsg, inflight, inbuf, rret>>

-----------------------------------------------------------------------------
(* Bounds of the model. *)

\* longest command file handed to send_commands
MaxLines == 2
\* iterations of the polling loop that are followed
MaxPolls == 2

-----------------------------------------------------------------------------
(* Constants of scpi.py. *)

AUTORECV == TRUE
END == "\n"

Socks == {"FG", "PG"}

-----------------------------------------------------------------------------
(* Text operations (Python's str methods as the code uses them). *)

Whitespace == {" ", "\n"}

RECURSIVE lstrip(_)
lstrip(s) ==
    IF s # <<>> /\ Head(s) \in Whitespace THEN lstrip(Tail(s)) ELSE s

RECURSIVE rstrip(_)
rstrip(s) ==
    IF s # <<>> /\ s[Len(s)] \in Whitespace
    THEN rstrip(SubSeq(s, 1, Len(s) - 1))
    ELSE s

\* a slip that trims the left side only
strip_left_only(s) == lstrip(s)

\* str.strip()
strip(s) == lstrip(rstrip(s))

\* str.startswith(c)
startswith(s, c) == s # <<>> /\ s[1] = c

\* str.endswith(c)
endswith(s, c) == s # <<>> /\ s[Len(s)] = c

\* str.rstrip(end), end a single character
RECURSIVE rstrip_end(_, _)
rstrip_end(s, e) ==
    IF s # <<>> /\ s[Len(s)] = e
    THEN rstrip_end(SubSeq(s, 1, Len(s) - 1), e)
    ELSE s

-----------------------------------------------------------------------------
(* Events of the trace. *)

Event(op, s, text, wire, phase, file, idx) ==
    [op |-> op, sock |-> s, text |-> text, wire |-> wire,
     phase |-> phase, file |-> file, idx |-> idx]

\* what the instrument answers to a query: one reply line
Reply == <<"0", "\n">>

\* CustomSocket.send: the string plus the terminator goes to the stream
CustomSocket_send(s, string, phase, file, idx) ==
    trace' = Append(trace,
        Event("send", s, string, string \o <<END>>, phase, file, idx))

\* CustomSocket.recv: one read of the stream, decoded, trailing terminator removed
CustomSocket_recv(s, phase, file, idx) ==
    trace' = Append(trace,
        Event("recv", s, rstrip_end(Reply, END), <<>>, phase, file, idx))

\* an exception is raised: it becomes the propagating one
Raise(e, phase) ==
    /\ exc' = e
    /\ raised' = Append(raised,
          [exc |-> e, phase |-> phase, at |-> Len(trace), k |-> k])

\* CustomSocket.close: self.shutdown() is called without its required
\* argument, which raises TypeError before super().close() is reached
CustomSocket_close(s, phase) ==
    /\ Raise("TypeError", phase)
    /\ UNCHANGED <<sockState, released>>

\* connect(): a new socket, connected to the instrument
connect(s) ==
    sockState' = [sockState EXCEPT ![s] = "connected"]

-----------------------------------------------------------------------------
(* send_commands / send_commands_in (scpi.py). *)

Chars == {"R", "?", "#", " "}

\* the text of a line without its terminator
Bodies == UNION {[1..n -> Chars] : n \in 0..2}

\* iterating over an open text file yields each line with its terminator;
\* only the last line may lack it, and no line is the empty string
TermLines == {b \o <<END>> : b \in Bodies}
LastLines == TermLines \cup (Bodies \ {<<>>})

Files ==
    {<<>>} \cup
    UNION {{pre \o <<l>> : pre \in [1..(n - 1) -> TermLines], l \in LastLines} :
           n \in 1..MaxLines}

\* line 72: the loop's skip test, on the line as it was read
sc_skipped(command) == command = <<>> \/ startswith(command, "#")

\* line 77: the loop's receive test, on the line as it was read
sc_query(command) == autorecv /\ endswith(command, "?")

\* line 70: with connect(host, port, timeout) as sock
sc_connect ==
    /\ scpc = "connect"
    /\ connect(host)
    /\ scpc' = "loop"
    /\ ci' = 1
    /\ UNCHANGED <<released, trace, exc, raised, commands, autorecv, host>>
    /\ UNCHANGED mainvars
    /\ UNCHANGED stvars

\* line 70: connect() fails; the with block is never entered
sc_connect_fail ==
    /\ scpc = "connect"
    /\ Raise("ConnectionError", "connect")
    /\ scpc' = "done"
    /\ UNCHANGED <<sockState, released, trace, commands, autorecv, host, ci>>
    /\ UNCHANGED mainvars
    /\ UNCHANGED stvars

\* lines 72-73: continue
sc_skip ==
    /\ scpc = "loop"
    /\ ci <= Len(commands)
    /\ sc_skipped(commands[ci])
    /\ ci' = ci + 1
    /\ UNCHANGED <<sockState, released, trace, exc, raised, scpc, commands,
                   autorecv, host>>
    /\ UNCHANGED mainvars
    /\ UNCHANGED stvars

\* line 75: sock.send(command.strip())
sc_send ==
    /\ scpc = "loop"
    /\ ci <= Len(commands)
    /\ ~sc_skipped(commands[ci])
    /\ CustomSocket_send(host, strip(commands[ci]), "replay", "commands", ci)
    /\ IF sc_query(commands[ci])
       THEN scpc' = "recv" /\ ci' = ci
       ELSE scpc' = "loop" /\ ci' = ci + 1
    /\ UNCHANGED <<sockState, released, exc, raised, commands, autorecv, host>>
    /\ UNCHANGED mainvars
    /\ UNCHANGED stvars

\* line 75: the send raises
sc_send_fail ==
    /\ scpc = "loop"
    /\ ci <= Len(commands)
    /\ ~sc_skipped(commands[ci])
    /\ Raise("ConnectionError", "replay")
    /\ scpc' = "exit"
    /\ UNCHANGED <<sockState, released, trace, commands, autorecv, host, ci>>
    /\ UNCHANGED mainvars
    /\ UNCHANGED stvars

\* line 78: sock.recv(bufsize)
sc_recv ==
    /\ scpc = "recv"
    /\ CustomSocket_recv(host, "replay", "commands", ci)
    /\ scpc' = "loop"
    /\ ci' = ci + 1
    /\ UNCHANGED <<sockState, released, exc, raised, commands, autorecv, host>>
    /\ UNCHANGED mainvars
    /\ UNCHANGED stvars

\* line 78: the receive raises (connection lost, timeout, undecodable bytes)
sc_recv_fail ==
    /\ scpc = "recv"
    /\ \E e \in {"ConnectionError", "timeout", "UnicodeDecodeError"} :
          Raise(e, "replay")
    /\ scpc' = "exit"
    /\ UNCHANGED <<sockState, released, trace, commands, autorecv, host, ci>>
    /\ UNCHANGED mainvars
    /\ UNCHANGED stvars

\* a keyboard interrupt arrives while the loop runs
sc_interrupt ==
    /\ scpc \in {"loop", "recv"}
    /\ Raise("KeyboardInterrupt", "replay")
    /\ scpc' = "exit"
    /\ UNCHANGED <<sockState, released, trace, commands, autorecv, host, ci>>
    /\ UNCHANGED mainvars
    /\ UNCHANGED stvars

\* line 71: the file is exhausted, the with block is left
sc_end ==
    /\ scpc = "loop"
    /\ ci > Len(commands)
    /\ scpc' = "exit"
    /\ UNCHANGED <<sockState, released, trace, exc, raised, commands,
                   autorecv, host, ci>>
    /\ UNCHANGED mainvars
    /\ UNCHANGED stvars

\* line 70: socket.__exit__ calls close()
sc_exit ==
    /\ scpc = "exit"
    /\ CustomSocket_close(host, "exit")
    /\ scpc' = "done"
    /\ UNCHANGED <<trace, commands, autorecv, host, ci>>
    /\ UNCHANGED mainvars
    /\ UNCHANGED stvars

\* nothing was logged
NoLog == [dir |-> "", text |-> <<>>]

\* no call was made on the stream yet
StreamIdle ==
    /\ lastop = "none"
    /\ outcome = "none"
    /\ sarg = <<>>
    /\ written = <<>>
    /\ nbytes = 0
    /\ logmsg = NoLog
    /\ inflight = <<>>
    /\ inbuf = <<>>
    /\ rret = <<>>

InitCommon ==
    /\ StreamIdle
    /\ sockState = [s \in Socks |-> "unconnected"]
    /\ released = [s \in Socks |-> 0]
    /\ trace = <<>>
    /\ exc = "none"
    /\ raised = <<>>

InitReplay ==
    /\ InitCommon
    /\ scpc = "connect"
    /\ commands \in Files
    /\ autorecv \in {AUTORECV, ~AUTORECV}
    /\ host = "FG"
    /\ ci = 0
    /\ pc = "idle"
    /\ preset = <<>>
    /\ k = 0
    /\ ri = 0
    /\ rstage = "line"
    /\ polls = 0
    /\ gate = "pending"

NextReplay ==
    \/ sc_connect
    \/ sc_connect_fail
    \/ sc_skip
    \/ sc_send
    \/ sc_send_fail
    \/ sc_recv
    \/ sc_recv_fail
    \/ sc_interrupt
    \/ sc_end
    \/ sc_exit

SpecReplay == InitReplay /\ [][NextReplay]_vars

-----------------------------------------------------------------------------
(* main (optsw-ctrl.py). *)

\* lines 51 and 58: the arguments of time.sleep
SettleDelay == 1
PollInterval == 10

FG_INIT == "33500B_initialization"
PG_INIT == "3390_initialization"

FileNames ==
    {FG_INIT, "33500B_1pps_signal", "33500B_output_for_1Hz_switch",
     "33500B_trigger_for_1Hz_switch", PG_INIT,
     "3390_output_for_1Hz_switch_EE", "3390_trigger"}

\* the preset files are instrument-specific text: a file holds a plain
\* command, or a blank line, a comment and a query
PresetFiles ==
    { << <<"R", "\n">> >>,
      << <<"\n">>, <<"#", "R", "\n">>, <<"R", "?", "\n">> >> }

Target(s, f) == [sock |-> s, file |-> f]

\* setup files in the reverse order, a slip in the script
SetupFiles_reversed ==
    << Target("PG", "3390_trigger"),
       Target("PG", "3390_output_for_1Hz_switch_EE"),
       Target("PG", PG_INIT),
       Target("FG", "33500B_trigger_for_1Hz_switch"),
       Target("FG", "33500B_output_for_1Hz_switch"),
       Target("FG", "33500B_1pps_signal"),
       Target("FG", FG_INIT) >>

\* lines 34-42: the setup replays, in program order
SetupFiles ==
    << Target("FG", FG_INIT),
       Target("FG", "33500B_1pps_signal"),
       Target("FG", "33500B_output_for_1Hz_switch"),
       Target("FG", "33500B_trigger_for_1Hz_switch"),
       Target("PG", PG_INIT),
       Target("PG", "3390_output_for_1Hz_switch_EE"),
       Target("PG", "3390_trigger") >>

\* the reset with PG first
ResetFiles_pg_first == << Target("PG", PG_INIT), Target("FG", FG_INIT) >>

\* lines 62-63: the replays of the finally block
ResetFiles == << Target("FG", FG_INIT), Target("PG", PG_INIT) >>

SendStep(s, text) == [op |-> "send", sock |-> s, text |-> text, dur |-> 0]
SleepStep(d) == [op |-> "sleep", sock |-> "-", text |-> <<>>, dur |-> d]

ERRQ == <<"SYST:ERR", "?">>

\* the start commands with the settle delay after the PG commands
StartSteps_sleep_last ==
    << SendStep("FG", <<"OUTP1 ON">>),
       SendStep("FG", <<"OUTP2 ON">>),
       SendStep("FG", <<"INIT1:CONT ON">>),
       SendStep("PG", <<"OUTP ON">>),
       SendStep("PG", <<"OUTP:TRIG ON">>),
       SleepStep(SettleDelay) >>

\* lines 48-53: the start commands
StartSteps ==
    << SendStep("FG", <<"OUTP1 ON">>),
       SendStep("FG", <<"OUTP2 ON">>),
       SendStep("FG", <<"INIT1:CONT ON">>),
       SleepStep(SettleDelay),
       SendStep("PG", <<"OUTP ON">>),
       SendStep("PG", <<"OUTP:TRIG ON">>) >>

\* lines 56-58: the body of the polling loop
PollSteps ==
    << SendStep("FG", ERRQ), SendStep("PG", ERRQ), SleepStep(PollInterval) >>

\* line 32: the sockets are entered left to right and left in reverse
ConnectOrder == <<"FG", "PG">>
ExitOrder == <<"PG", "FG">>

\* line 59: what the except clause catches
Caught == {"EOFError", "KeyboardInterrupt"}

\* the positions inside the try block (lines 46-58)
TryBlock == {"gate", "start", "poll"}

\* a try block that begins before the setup replays
Unwind_setup_in_try(p, e) ==
    CASE p = "setup" -> IF e \in Caught THEN "except" ELSE "reset"
      [] p \in TryBlock -> IF e \in Caught THEN "except" ELSE "reset"
      [] p = "except" -> "reset"
      [] p = "reset" -> "exit"

\* a handler that resumes the try block after the prompt
Unwind_resumes(p, e) ==
    CASE p = "setup" -> "exit"
      [] p \in TryBlock -> IF e \in Caught THEN "start" ELSE "reset"
      [] p = "except" -> "reset"
      [] p = "reset" -> "exit"

\* where control goes when exception e is raised at position p:
\* lines 45-63, try / except / finally inside the with block
Unwind(p, e) ==
    CASE p = "setup" -> "exit"
      [] p \in TryBlock -> IF e \in Caught THEN "except" ELSE "reset"
      [] p = "except" -> "reset"
      [] p = "reset" -> "exit"

\* the new position and indices after an exception at the current position
Propagate(e) ==
    /\ Raise(e, pc)
    /\ pc' = Unwind(pc, e)
    /\ k' = 1
    /\ ri' = 1
    /\ rstage' = "line"

\* line 32: connect() of the next instrument succeeds
m_connect ==
    /\ pc = "connect"
    /\ connect(ConnectOrder[k])
    /\ IF k < Len(ConnectOrder)
       THEN pc' = "connect" /\ k' = k + 1
       ELSE pc' = "setup" /\ k' = 1
    /\ ri' = 1
    /\ rstage' = "line"
    /\ UNCHANGED <<released, trace, exc, raised, preset, polls, gate>>
    /\ UNCHANGED scvars
    /\ UNCHANGED stvars

\* line 32: connect() raises; the sockets already entered are left
m_connect_fail ==
    /\ pc = "connect"
    /\ \E e \in {"ConnectionError", "KeyboardInterrupt"} : Raise(e, "connect")
    /\ IF k = 1
       THEN pc' = "done" /\ k' = k
       ELSE pc' = "exit" /\ k' = Len(ExitOrder) - (k - 1) + 1
    /\ UNCHANGED <<sockState, released, trace, preset, ri, rstage, polls, gate>>
    /\ UNCHANGED scvars
    /\ UNCHANGED stvars

\* the file being replayed and its lines
Cur == IF pc = "setup" THEN SetupFiles[k] ELSE ResetFiles[k]
CurLines == preset[Cur.file]
CurCount == IF pc = "setup" THEN Len(SetupFiles) ELSE Len(ResetFiles)

\* replay: the line is skipped when empty or a comment once trimmed
sf_skipped(line) == strip(line) = <<>> \/ startswith(strip(line), "#")

\* replay: a sent line is a query when it ends with the query marker
sf_query(line) == AUTORECV /\ endswith(strip(line), "?")

\* replay: a blank or comment line is passed over
sf_skip ==
    /\ pc \in {"setup", "reset"}
    /\ rstage = "line"
    /\ ri <= Len(CurLines)
    /\ sf_skipped(CurLines[ri])
    /\ ri' = ri + 1
    /\ UNCHANGED <<sockState, released, trace, exc, raised, pc, preset, k,
                   rstage, polls, gate>>
    /\ UNCHANGED scvars
    /\ UNCHANGED stvars

\* replay: the trimmed line is sent
sf_send ==
    /\ pc \in {"setup", "reset"}
    /\ rstage = "line"
    /\ ri <= Len(CurLines)
    /\ ~sf_skipped(CurLines[ri])
    /\ CustomSocket_send(Cur.sock, strip(CurLines[ri]), pc, Cur.file, ri)
    /\ IF sf_query(CurLines[ri])
       THEN rstage' = "recv" /\ ri' = ri
       ELSE rstage' = "line" /\ ri' = ri + 1
    /\ UNCHANGED <<sockState, released, exc, raised, pc, preset, k, polls, gate>>
    /\ UNCHANGED scvars
    /\ UNCHANGED stvars

\* replay: the reply to a query is received
sf_recv ==
    /\ pc \in {"setup", "reset"}
    /\ rstage = "recv"
    /\ CustomSocket_recv(Cur.sock, pc, Cur.file, ri)
    /\ rstage' = "line"
    /\ ri' = ri + 1
    /\ UNCHANGED <<sockState, released, exc, raised, pc, preset, k, polls, gate>>
    /\ UNCHANGED scvars
    /\ UNCHANGED stvars

\* replay: a send or a receive raises
sf_fail ==
    /\ pc \in {"setup", "reset"}
    /\ \/ rstage = "recv"
       \/ rstage = "line" /\ ri <= Len(CurLines) /\ ~sf_skipped(CurLines[ri])
    /\ \E e \in (IF rstage = "recv"
                 THEN {"ConnectionError", "UnicodeDecodeError"}
                 ELSE {"ConnectionError"}) : Propagate(e)
    /\ UNCHANGED <<sockState, released, trace, preset, polls, gate>>
    /\ UNCHANGED scvars
    /\ UNCHANGED stvars

\* lines 34-42, 62-63: one send_from has returned, the next statement follows
m_next_file ==
    /\ pc \in {"setup", "reset"}
    /\ rstage = "line"
    /\ ri > Len(CurLines)
    /\ IF k < CurCount
       THEN pc' = pc /\ k' = k + 1
       ELSE pc' = (IF pc = "setup" THEN "gate" ELSE "exit") /\ k' = 1
    /\ ri' = 1
    /\ UNCHANGED <<sockState, released, trace, exc, raised, preset, rstage,
                   polls, gate>>
    /\ UNCHANGED scvars
    /\ UNCHANGED stvars

\* line 46: input() returns
m_gate_go ==
    /\ pc = "gate"
    /\ gate' = "go"
    /\ pc' = "start"
    /\ k' = 1
    /\ UNCHANGED <<sockState, released, trace, exc, raised, preset, ri,
                   rstage, polls>>
    /\ UNCHANGED scvars
    /\ UNCHANGED stvars

\* line 46: input() raises EOFError or KeyboardInterrupt
m_gate_interrupt ==
    /\ pc = "gate"
    /\ \E e \in Caught : gate' = e /\ Propagate(e)
    /\ UNCHANGED <<sockState, released, trace, preset, polls>>
    /\ UNCHANGED scvars
    /\ UNCHANGED stvars

\* line 46: input() raises something else (the terminal's bytes do not decode)
m_gate_fail ==
    /\ pc = "gate"
    /\ gate' = "UnicodeDecodeError"
    /\ Propagate("UnicodeDecodeError")
    /\ UNCHANGED <<sockState, released, trace, preset, polls>>
    /\ UNCHANGED scvars
    /\ UNCHANGED stvars

\* the statements of the start block or of the loop body, and the statement at hand
Steps == IF pc = "start" THEN StartSteps ELSE PollSteps
Step == Steps[k]

\* the statement after the current one: the loop follows the start block,
\* and the loop body is followed by itself
Advance ==
    IF k < Len(Steps)
    THEN pc' = pc /\ k' = k + 1 /\ polls' = polls
    ELSE /\ pc' = "poll"
         /\ k' = 1
         /\ polls' = IF pc = "poll" THEN polls + 1 ELSE polls

\* lines 48-50, 52-53, 56-57: fg.send(...) / pg.send(...)
m_send ==
    /\ pc \in {"start", "poll"}
    /\ Step.op = "send"
    /\ CustomSocket_send(Step.sock, Step.text, pc, "-", k)
    /\ Advance
    /\ UNCHANGED <<sockState, released, exc, raised, preset, ri, rstage, gate>>
    /\ UNCHANGED scvars
    /\ UNCHANGED stvars

\* lines 48-50, 52-53, 56-57: the send raises
m_send_fail ==
    /\ pc \in {"start", "poll"}
    /\ Step.op = "send"
    /\ Propagate("ConnectionError")
    /\ UNCHANGED <<sockState, released, trace, preset, polls, gate>>
    /\ UNCHANGED scvars
    /\ UNCHANGED stvars

\* lines 51, 58: time.sleep(...) returns after the delay
m_sleep ==
    /\ pc \in {"start", "poll"}
    /\ Step.op = "sleep"
    /\ pc = "poll" => polls < MaxPolls
    /\ trace' = Append(trace, Event("sleep", "-", <<>>, <<>>, pc, "-", Step.dur))
    /\ Advance
    /\ UNCHANGED <<sockState, released, exc, raised, preset, ri, rstage, gate>>
    /\ UNCHANGED scvars
    /\ UNCHANGED stvars

\* a keyboard interrupt arrives during setup, start, polling, the except
\* clause (before its print) or reset
m_interrupt ==
    /\ pc \in {"setup", "start", "poll", "except", "reset"}
    /\ Propagate("KeyboardInterrupt")
    /\ UNCHANGED <<sockState, released, trace, preset, polls, gate>>
    /\ UNCHANGED scvars
    /\ UNCHANGED stvars

\* lines 59-60: the except clause prints the notice; then the finally block
m_except ==
    /\ pc = "except"
    /\ trace' = Append(trace,
          Event("notice", "-", <<"Control was interrupted by user">>, <<>>,
                pc, "-", 0))
    /\ exc' = "none"
    /\ pc' = "reset"
    /\ k' = 1
    /\ ri' = 1
    /\ rstage' = "line"
    /\ UNCHANGED <<sockState, released, raised, preset, polls, gate>>
    /\ UNCHANGED scvars
    /\ UNCHANGED stvars

\* line 32: leaving the with block, socket.__exit__ calls close()
m_exit ==
    /\ pc = "exit"
    /\ CustomSocket_close(ExitOrder[k], "exit")
    /\ IF k < Len(ExitOrder)
       THEN pc' = "exit" /\ k' = k + 1
       ELSE pc' = "done" /\ k' = k
    /\ UNCHANGED <<trace, preset, ri, rstage, polls, gate>>
    /\ UNCHANGED scvars
    /\ UNCHANGED stvars

Init ==
    /\ InitCommon
    /\ pc = "connect"
    /\ preset \in [FileNames -> PresetFiles]
    /\ k = 1
    /\ ri = 1
    /\ rstage = "line"
    /\ polls = 0
    /\ gate = "pending"
    /\ scpc = "idle"
    /\ commands = <<>>
    /\ autorecv = AUTORECV
    /\ host = "FG"
    /\ ci = 0

Next ==
    \/ m_connect
    \/ m_connect_fail
    \/ sf_skip
    \/ sf_send
    \/ sf_recv
    \/ sf_fail
    \/ m_next_file
    \/ m_gate_go
    \/ m_gate_interrupt
    \/ m_gate_fail
    \/ m_send
    \/ m_send_fail
    \/ m_sleep
    \/ m_interrupt
    \/ m_except
    \/ m_exit

Spec == Init /\ [][Next]_vars

-----------------------------------------------------------------------------
(* What the claims speak of, stated independently of the code's operators. *)

\* the positions of a line that hold no whitespace
Inked(l) == {i \in 1..Len(l) : l[i] \notin Whitespace}

\* the line's content with surrounding whitespace trimmed
Trimmed(l) ==
    IF Inked(l) = {} THEN <<>>
    ELSE SubSeq(l, CHOOSE i \in Inked(l) : \A j \in Inked(l) : i <= j,
                   CHOOSE i \in Inked(l) : \A j \in Inked(l) : i >= j)

\* the line is blank or a comment once trimmed
IsSkippable(l) == Trimmed(l) = <<>> \/ Trimmed(l)[1] = "#"

\* the line is a query once trimmed
IsQuery(l) == Trimmed(l) # <<>> /\ Trimmed(l)[Len(Trimmed(l))] = "?"

\* positions of the trace holding an event of the given kind for line j
EventsOf(op, j) == {n \in 1..Len(trace) : trace[n].op = op /\ trace[n].idx = j}

\* the lines send_commands has finished with
Processed == {j \in 1..Len(commands) : j < ci}

\* C1: with auto_receive, every sent line that ends with '?' (terminator and
\* surrounding whitespace aside) is followed by exactly one receive before the
\* next line is processed, and a sent line that does not gets no receive
C1_ReceiveFollowsQuery ==
    (scpc \in {"loop", "exit", "done"} /\ autorecv) =>
        \A j \in Processed :
            EventsOf("send", j) # {} =>
                IF IsQuery(commands[j])
                THEN /\ Cardinality(EventsOf("recv", j)) = 1
                     /\ \A n \in EventsOf("send", j) : (n + 1) \in EventsOf("recv", j)
                ELSE EventsOf("recv", j) = {}

\* C2: a line that is empty or starts with '#' once trimmed causes no send
\* and no receive
C2_SkippedLinesSilent ==
    \A j \in 1..Len(commands) :
        IsSkippable(commands[j]) =>
            EventsOf("send", j) = {} /\ EventsOf("recv", j) = {}

-----------------------------------------------------------------------------
(* The sequencer's claims. *)

\* the events one replay of a file is to produce, from line i on: each line
\* that is neither blank nor a comment is sent, a query is then received
RECURSIVE ReplayEvents(_, _, _, _, _)
ReplayEvents(s, f, lines, phase, i) ==
    IF i > Len(lines) THEN <<>>
    ELSE LET t == Trimmed(lines[i])
         IN  (IF t = <<>> \/ t[1] = "#" THEN <<>>
              ELSE <<Event("send", s, t, t \o <<END>>, phase, f, i)>>
                   \o (IF t[Len(t)] = "?"
                       THEN <<Event("recv", s, <<"0">>, <<>>, phase, f, i)>>
                       ELSE <<>>))
             \o ReplayEvents(s, f, lines, phase, i + 1)

Replay(s, f, phase) == ReplayEvents(s, f, preset[f], phase, 1)

IsPrefix(a, b) == Len(a) <= Len(b) /\ a = SubSeq(b, 1, Len(a))

InPhase(ph) == {n \in 1..Len(trace) : trace[n].phase \in ph}

\* the exceptions raised in a phase
RaisedIn(ph) == {n \in 1..Len(raised) : raised[n].phase = ph}

IOErrors == {"ConnectionError", "UnicodeDecodeError", "timeout"}

NoticeEvent ==
    Event("notice", "-", <<"Control was interrupted by user">>, <<>>,
          "except", "-", 0)

\* what follows an interrupt when the reset goes through
ResetEvents ==
    Replay("FG", FG_INIT, "reset") \o Replay("PG", PG_INIT, "reset")

\* the interrupt that ended the polling loop, if any
PollInterrupts ==
    {n \in RaisedIn("poll") : raised[n].exc \in Caught}

C5_ReleasedOnce ==
    pc = "done" =>
        \A s \in Socks :
            sockState[s] # "unconnected" =>
                sockState[s] = "released" /\ released[s] = 1

\* the setup replays in the order the claim gives
FullSetup ==
    Replay("FG", FG_INIT, "setup")
    \o Replay("FG", "33500B_1pps_signal", "setup")
    \o Replay("FG", "33500B_output_for_1Hz_switch", "setup")
    \o Replay("FG", "33500B_trigger_for_1Hz_switch", "setup")
    \o Replay("PG", PG_INIT, "setup")
    \o Replay("PG", "3390_output_for_1Hz_switch_EE", "setup")
    \o Replay("PG", "3390_trigger", "setup")

\* C6: the setup events are the replays of the four FG files and then of the
\* three PG files, each whole before the next begins, and a start or poll
\* command is sent only after all of them
C6_SetupOrder ==
    LET n == Cardinality(InPhase({"setup"}))
        full == FullSetup
    IN  /\ n > 0 => IsPrefix(SubSeq(trace, 1, n), full)
        /\ \A m \in InPhase({"setup"}) : m <= n
        /\ InPhase({"start", "poll"}) # {} => IsPrefix(full, trace)

\* the loop is reached after a setup that had queries to both instruments
C6_Witness ==
    /\ pc = "poll"
    /\ polls >= 1
    /\ \A f \in FileNames : Len(preset[f]) = 3
    /\ Len(FullSetup) = 14

\* C7: after a send or receive failed during setup nothing more is sent and
\* both connections are released
C7_SetupFailureAborts ==
    (pc = "done" /\ raised # <<>> /\ raised[1].phase = "setup"
       /\ raised[1].exc \in IOErrors) =>
        /\ Len(trace) = raised[1].at
        /\ \A s \in Socks : released[s] = 1

\* C7, the part that holds: after a send or receive failed during setup
\* nothing more is sent
C7_NoCommandAfterSetupFailure ==
    (raised # <<>> /\ raised[1].phase = "setup") => Len(trace) = raised[1].at

\* C8: when the prompt ended with end-of-input or an interrupt, no start
\* command and no poll command is ever sent
C8_NoStartAfterGateInterrupt ==
    gate \in Caught => InPhase({"start", "poll"}) = {}

\* the prompt was interrupted and the process ran to its end
C8_Witness ==
    /\ pc = "done"
    /\ gate = "EOFError"
    /\ InPhase({"reset"}) # {}

\* the start sequence the claim gives: what is done, to which instrument
StartSequence ==
    << <<"send", "FG", <<"OUTP1 ON">>, 1>>,
       <<"send", "FG", <<"OUTP2 ON">>, 2>>,
       <<"send", "FG", <<"INIT1:CONT ON">>, 3>>,
       <<"sleep", "-", <<>>, 1>>,
       <<"send", "PG", <<"OUTP ON">>, 5>>,
       <<"send", "PG", <<"OUTP:TRIG ON">>, 6>> >>

Shape(e) == <<e.op, e.sock, e.text, e.idx>>

\* C9: the events of the start block are, with nothing in between, a prefix
\* of OUTP1 ON, OUTP2 ON, INIT1:CONT ON to FG, the settle delay, OUTP ON,
\* OUTP:TRIG ON to PG
C9_StartOrder ==
    LET S == InPhase({"start"})
    IN  S # {} =>
          LET first == CHOOSE n \in S : \A m \in S : n <= m
          IN  /\ S = first..(first + Cardinality(S) - 1)
              /\ Cardinality(S) <= Len(StartSequence)
              /\ \A n \in S : Shape(trace[n]) = StartSequence[n - first + 1]
              /\ pc = "poll" => Cardinality(S) = Len(StartSequence)

\* the start block was run to its end
C9_Witness ==
    /\ pc = "poll"
    /\ Cardinality(InPhase({"start"})) = 6
    /\ gate = "go"

\* C10: in the polling loop the query to PG is sent only after the reply to
\* the query to FG was received, and the loop sleeps only after the reply of
\* PG was received
C10_PollRoundTrips ==
    \A n \in InPhase({"poll"}) :
        /\ (trace[n].op = "send" /\ trace[n].sock = "PG") =>
              /\ n > 2
              /\ Shape(trace[n - 1]) = <<"recv", "FG", <<"0">>, 1>>
              /\ trace[n - 2].op = "send" /\ trace[n - 2].sock = "FG"
        /\ trace[n].op = "sleep" =>
              n > 1 /\ trace[n - 1].op = "recv" /\ trace[n - 1].sock = "PG"

-----------------------------------------------------------------------------
(* One connected CustomSocket at the level of the byte stream (scpi.py).   *)
(* A byte is its number; a character is encoded by the ASCII codec.        *)

\* bound: longest string handed to send
MaxStr == 3
\* bound: a query is sent only while at most this many reply bytes are unread
MaxBacklog == 2

BUFSIZE == 4096
ENCODING == "ascii"

\* the characters strings are made of; "e-acute" stands for a character
\* outside ASCII
StrChars == {"a", "?", "e-acute"}
Strings == UNION {[1..n -> StrChars] : n \in 0..MaxStr}

\* the code point of a character
Ord(c) ==
    CASE c = "\n" -> 10
      [] c = "0" -> 48
      [] c = "?" -> 63
      [] c = "a" -> 97
      [] c = "e-acute" -> 233

\* the character of a byte below 128
Chr(b) ==
    CASE b = 10 -> "\n"
      [] b = 48 -> "0"
      [] b = 63 -> "?"
      [] b = 97 -> "a"

\* str.encode("ascii") succeeds on s
Encodable(s) == \A i \in 1..Len(s) : Ord(s[i]) < 128
\* str.encode("ascii")
encode(s) == [i \in 1..Len(s) |-> Ord(s[i])]

\* bytes.decode("ascii") succeeds on b
Decodable(b) == \A i \in 1..Len(b) : b[i] < 128
\* bytes.decode("ascii")
decode(b) == [i \in 1..Len(b) |-> Chr(b[i])]

\* what the instrument may answer to a query: one reply line, of ASCII
\* digits or holding a byte that is no ASCII
Replies == { <<48, 10>>, <<233, 10>> }

progvars == <<sockState, released, trace, exc, raised>>

\* lines 132-137: CustomSocket.send(string). socket.send writes the first n
\* bytes of the buffer, n >= 1, and returns n; the string is logged as it is.
\* An instrument that got a whole query line sends one reply line.
st_send ==
    \E string \in Strings :
        /\ Encodable(string \o <<END>>)
        /\ endswith(string, "?") => Len(inflight) + Len(inbuf) <= MaxBacklog
        /\ LET encoded == encode(string \o <<END>>)
           IN  \E n \in 1..Len(encoded) :
                 /\ written' = SubSeq(encoded, 1, n)
                 /\ nbytes' = n
                 /\ IF n = Len(encoded) /\ endswith(string, "?")
                    THEN \E reply \in Replies : inflight' = inflight \o reply
                    ELSE inflight' = inflight
        /\ sarg' = string
        /\ logmsg' = [dir |-> "<-", text |-> string]
        /\ lastop' = "send"
        /\ outcome' = "returned"
        /\ rret' = <<>>
        /\ UNCHANGED inbuf
        /\ UNCHANGED <<progvars, scvars, mainvars>>

\* line 132: the string has a character the codec cannot encode
st_send_unencodable ==
    \E string \in Strings :
        /\ ~Encodable(string \o <<END>>)
        /\ sarg' = string
        /\ written' = <<>>
        /\ nbytes' = 0
        /\ lastop' = "send"
        /\ outcome' = "UnicodeEncodeError"
        /\ rret' = <<>>
        /\ logmsg' = NoLog
        /\ UNCHANGED <<inflight, inbuf>>
        /\ UNCHANGED <<progvars, scvars, mainvars>>

\* line 133: socket.send raises (peer unreachable, connection reset)
st_send_fail ==
    \E string \in Strings :
        /\ Encodable(string \o <<END>>)
        /\ sarg' = string
        /\ written' = <<>>
        /\ nbytes' = 0
        /\ lastop' = "send"
        /\ outcome' = "ConnectionError"
        /\ rret' = <<>>
        /\ logmsg' = NoLog
        /\ UNCHANGED <<inflight, inbuf>>
        /\ UNCHANGED <<progvars, scvars, mainvars>>

\* the stream delivers the next chunk of what the instrument sent
st_arrive ==
    /\ inflight # <<>>
    /\ \E c \in 1..Len(inflight) :
          /\ inbuf' = inbuf \o SubSeq(inflight, 1, c)
          /\ inflight' = SubSeq(inflight, c + 1, Len(inflight))
    /\ UNCHANGED <<lastop, outcome, sarg, written, nbytes, logmsg, rret>>
    /\ UNCHANGED <<progvars, scvars, mainvars>>

\* the bytes one socket.recv(bufsize) takes: what has arrived, up to bufsize
Received == SubSeq(inbuf, 1, IF Len(inbuf) < BUFSIZE THEN Len(inbuf) ELSE BUFSIZE)

\* lines 147-152: CustomSocket.recv(): one read of what has arrived, decoded,
\* trailing terminators removed, the result logged as it is
st_recv ==
    /\ inbuf # <<>>
    /\ inbuf' = SubSeq(inbuf, Len(Received) + 1, Len(inbuf))
    /\ lastop' = "recv"
    /\ IF Decodable(Received)
       THEN /\ rret' = rstrip_end(decode(Received), END)
            /\ logmsg' = [dir |-> "->", text |-> rstrip_end(decode(Received), END)]
            /\ outcome' = "returned"
       ELSE /\ rret' = <<>>
            /\ logmsg' = NoLog
            /\ outcome' = "UnicodeDecodeError"
    /\ sarg' = <<>>
    /\ written' = <<>>
    /\ nbytes' = 0
    /\ UNCHANGED inflight
    /\ UNCHANGED <<progvars, scvars, mainvars>>

\* line 147: socket.recv raises: the connection is lost, or nothing arrives
\* within the timeout
st_recv_fail ==
    /\ \E e \in {"ConnectionError"} \cup (IF inbuf = <<>> THEN {"timeout"} ELSE {}) :
          outcome' = e
    /\ lastop' = "recv"
    /\ rret' = <<>>
    /\ sarg' = <<>>
    /\ written' = <<>>
    /\ nbytes' = 0
    /\ logmsg' = NoLog
    /\ UNCHANGED <<inflight, inbuf>>
    /\ UNCHANGED <<progvars, scvars, mainvars>>

InitSocket ==
    /\ StreamIdle
    /\ sockState = [s \in Socks |-> IF s = "FG" THEN "connected" ELSE "unconnected"]
    /\ released = [s \in Socks |-> 0]
    /\ trace = <<>>
    /\ exc = "none"
    /\ raised = <<>>
    /\ scpc = "idle"
    /\ commands = <<>>
    /\ autorecv = AUTORECV
    /\ host = "FG"
    /\ ci = 0
    /\ pc = "idle"
    /\ preset = <<>>
    /\ k = 0
    /\ ri = 0
    /\ rstage = "line"
    /\ polls = 0
    /\ gate = "pending"

NextSocket ==
    \/ st_send
    \/ st_send_unencodable
    \/ st_send_fail
    \/ st_arrive
    \/ st_recv
    \/ st_recv_fail

SpecSocket == InitSocket /\ [][NextSocket]_vars

\* C11: when send returns, every byte of the encoded line and its terminator
\* is on the stream and the count returned is the line's length plus one
C11_SendWritesAll ==
    (lastop = "send" /\ outcome = "returned") =>
        /\ written = encode(sarg \o <<END>>)
        /\ nbytes = Len(sarg) + 1

\* C11, the part that holds: the count returned is the number of bytes
\* written, and they are the first bytes of the encoded line and terminator
C11_CountIsWhatWasWritten ==
    (lastop = "send" /\ outcome = "returned") =>
        /\ nbytes = Len(written)
        /\ nbytes >= 1
        /\ written = SubSeq(encode(sarg \o <<END>>), 1, nbytes)

\* the text a log line of the given display width shows for string s
Shown(s, width) ==
    IF Len(s) <= width THEN s ELSE SubSeq(s, 1, width) \o <<"...">>

\* the string the last call sent or received
Exchanged == IF lastop = "send" THEN sarg ELSE rret

\* C12: the log message of a send or receive carries the string unmodified
\* when it is no longer than the display width (here 2), its first `width`
\* characters and a truncation marker when it is longer, and a send that
\* wrote its full count wrote the whole string either way
C12_LogTruncated ==
    (lastop \in {"send", "recv"} /\ outcome = "returned") =>
        /\ logmsg.text = Shown(Exchanged, 2)
        /\ (lastop = "send" /\ nbytes = Len(sarg) + 1) =>
              written = encode(sarg \o <<END>>)

\* C12, what holds: the log message carries the whole string, whatever its
\* length
C12_LogUntruncated ==
    (lastop \in {"send", "recv"} /\ outcome = "returned") =>
        /\ logmsg.text = Exchanged
        /\ logmsg.dir = (IF lastop = "send" THEN "<-" ELSE "->")

\* the replies still unread on socket s after the first m events, the
\* instrument answering every query with one reply line and every receive
\* reading one whole reply
UnreadReplies(s, m) ==
    Cardinality({i \in 1..m : /\ trace[i].op = "send"
                              /\ trace[i].sock = s
                              /\ trace[i].text # <<>>
                              /\ trace[i].text[Len(trace[i].text)] = "?"})
    - Cardinality({i \in 1..m : trace[i].op = "recv" /\ trace[i].sock = s})

\* C13: whenever a command is sent to an instrument, no reply to an earlier
\* query on that socket is still unread
C13_NoUnreadReplyAtSend ==
    \A n \in 1..Len(trace) :
        trace[n].op = "send" => UnreadReplies(trace[n].sock, n - 1) = 0

\* C13, on the stream: after a receive that followed one query nothing of
\* the reply is left, in flight or unread
C13_RecvTakesWholeReply ==
    (lastop = "recv" /\ outcome = "returned") =>
        inflight = <<>> /\ inbuf = <<>>

\* C13, what holds of the replays: while a file is replayed during setup,
\* every command is sent with no reply unread, replies arriving whole
C13_SetupRoundTrips ==
    \A n \in 1..Len(trace) :
        (trace[n].op = "send" /\ trace[n].phase = "setup") =>
            UnreadReplies(trace[n].sock, n - 1) = 0

\* the first exception of the run was raised inside the try block and is
\* none the except clause catches
ErrorInTry ==
    /\ raised # <<>>
    /\ raised[1].phase \in TryBlock
    /\ raised[1].exc \notin Caught

\* what was sent and received since the first exception
SinceFirstError == SubSeq(trace, raised[1].at + 1, Len(trace))

\* C14: after an error other than an interrupt in the gate, the start
\* commands or the loop, the two reset replays are made and, the reset having
\* met no error itself, the process ends with that original error propagating
\* and no notice
C14_ErrorResetsAndPropagates ==
    (pc = "done" /\ ErrorInTry /\ RaisedIn("reset") = {}) =>
        /\ SinceFirstError = ResetEvents
        /\ exc = raised[1].exc
        /\ \A n \in 1..Len(trace) : trace[n].op # "notice"

\* C14, what holds: the same up to the point where the with block is left,
\* before any close()
C14_ErrorResetsThenLeaves ==
    (pc = "exit" /\ RaisedIn("exit") = {} /\ ErrorInTry /\ RaisedIn("reset") = {}) =>
        /\ SinceFirstError = ResetEvents
        /\ exc = raised[1].exc
        /\ \A n \in 1..Len(trace) : trace[n].op # "notice"

\* C15: close() completes without raising on a connected socket, and a
\* socket is released only by a close() that shut it down first: leaving the
\* with block raises nothing and leaves every connected socket released
C15_CloseShutsDownThenReleases ==
    /\ RaisedIn("exit") = {}
    /\ pc = "done" =>
          \A s \in Socks : sockState[s] \in {"unconnected", "released"}

\* C15, what the code does instead: every close() of a connected socket
\* raises TypeError and the socket stays connected
C15_CloseAlwaysRaises ==
    /\ \A n \in RaisedIn("exit") : raised[n].exc = "TypeError"
    /\ \A s \in Socks : sockState[s] # "released" /\ released[s] = 0
    /\ pc = "done" =>
          Cardinality(RaisedIn("exit"))
              = Cardinality({s \in Socks : sockState[s] = "connected"})

\* the exceptions raised while the FG initialization file was replayed in
\* the reset
FgResetFailures ==
    {n \in RaisedIn("reset") : raised[n].k = 1 /\ raised[n].exc \in IOErrors}

\* C16: when a send or receive fails in the reset of FG, no reset command is
\* sent to PG, the process ends with that failure propagating, and both
\* sockets are released
C16_FgResetFailureSkipsPg ==
    (pc = "done" /\ FgResetFailures # {}) =>
        /\ \A n \in InPhase({"reset"}) : trace[n].sock # "PG"
        /\ \A n \in FgResetFailures : exc = raised[n].exc
        /\ \A s \in Socks : sockState[s] = "released" /\ released[s] = 1

\* C16, what holds: after such a failure no reset command goes to PG, and
\* the failure is the propagating error when the with block is left
C16_NoPgResetAfterFgFailure ==
    FgResetFailures # {} =>
        /\ \A n \in InPhase({"reset"}) : trace[n].sock # "PG"
        /\ (pc = "exit" /\ RaisedIn("exit") = {}) =>
              \A n \in FgResetFailures : exc = raised[n].exc

\* the reset events on FG, in order
FgResetEvents ==
    SelectSeq(trace, LAMBDA e : e.phase = "reset" /\ e.sock = "FG")

\* the exceptions that cut the reset replay of the FG file short
FgResetCuts == {n \in RaisedIn("reset") : raised[n].k = 1}

====
